---- MODULE Spec2Model ----
(***************************************************************************)
(* A model of the ADR server (LabRAD/Servers/ADR/ADRServer.py): the state  *)
(* polling loop updateState, the mag-up ramp _magUp, the PID regulation    *)
(* loop _regulate, their cancel commands, instrument initialization and    *)
(* the log.                                                                *)
(*                                                                         *)
(* Units.  Voltages are integers in microvolts, currents in microamperes,  *)
(* temperatures in millikelvin, times in seconds.  Every reading and every *)
(* setting is an even number of microvolts, so that the one voltage of the *)
(* code that is far below a microvolt, dVdT_limit*1e-10 V, can be stood    *)
(* for by one microvolt (EpsStep) without changing the outcome of any      *)
(* comparison.  A float that is not-a-number is the value NaN; arithmetic  *)
(* and comparisons are lifted over it as IEEE 754 does.                    *)
(*                                                                         *)
(* The server is a Twisted program: one thread, coroutines that give up    *)
(* control at each `yield`.  An action of the model is the code a          *)
(* coroutine runs between two of its suspension points.                    *)
(***************************************************************************)
EXTENDS Integers, Sequences, FiniteSets, TLC

VARIABLES
    state,          \* self.state
    lastState,      \* self.lastState
    logMessages,    \* self.logMessages: sequence of <<message, alert>>
    pollPc,         \* where the updateState coroutine is suspended
    magUpLoops,     \* number of _magUp coroutines suspended in wakeupCall
    regulateLoops,  \* number of _regulate coroutines suspended in wakeupCall
    now,            \* the wall clock, datetime.datetime.now()
    tempRecords,    \* number of records appended to the .temps file
    faults,         \* number of instrument calls that have raised so far
    op,             \* the step taken last, with its outcome
    sent,           \* named messages sent by the step taken last
    psWrites,       \* voltages written to the power supply by the step taken last
    pidStep,        \* <<proposed dV, clamped dV>> of each PID pass of the step taken last
    getLogCall      \* <<n, the entries returned>> if the step taken last served 'Get Log'

vars == <<state, lastState, logMessages, pollPc, magUpLoops,
          regulateLoops, now, tempRecords, faults, op, sent, psWrites, pidStep,
          getLogCall>>

(***************************************************************************)
(* Bounds of the model.                                                    *)
(***************************************************************************)
MaxCycle == 1       \* poll cycles begun, while every setting may be called
MaxRampCycle == 2   \* poll cycles begun, while one control loop is exercised
MaxLog == 7         \* entries of the log
MaxPIDLog == 8      \* entries of the log, while the PID pass alone is exercised
MaxRunLog == 8      \* entries of the log, while regulation runs follow one another
MaxLoops == 2       \* live coroutines of one control loop
MaxFaults == 1      \* instrument calls that raise
MaxAcc == 2         \* |PID_cumulativeError|, in mK
MaxPollCycle == 2   \* poll cycles begun, while the poll loop's progress is checked
MaxPollLog == 6     \* entries of the log, while the poll loop's progress is checked
MaxGetLog == 3      \* entries of the log, while 'Get Log' is exercised
MaxRuoxCycle == 2    \* poll cycles begun, while the RuOx block is exercised

(***************************************************************************)
(* Floats.                                                                 *)
(***************************************************************************)
NaN == -999999999
Huge == 1000000000      \* a quotient by the 1e-10 s epsilon: beyond every limit
EpsStep == 1            \* dVdT_limit * 1e-10 s, in the model's resolution

Add(a, b) == IF a = NaN \/ b = NaN THEN NaN ELSE a + b
Sub(a, b) == IF a = NaN \/ b = NaN THEN NaN ELSE a - b
Mul(a, b) == IF a = NaN \/ b = NaN THEN NaN ELSE a * b
Lt(a, b) == a # NaN /\ b # NaN /\ a < b
Gt(a, b) == a # NaN /\ b # NaN /\ a > b
Le(a, b) == a # NaN /\ b # NaN /\ a <= b
Abs(a) == IF a = NaN THEN NaN ELSE IF a < 0 THEN -a ELSE a
Sign(a) == IF a = NaN THEN NaN ELSE IF a < 0 THEN -1 ELSE IF a > 0 THEN 1 ELSE 0
\* Python's max(a, b) and min(a, b): a unless b compares beyond it.
PyMax(a, b) == IF Gt(b, a) THEN b ELSE a
PyMin(a, b) == IF Lt(b, a) THEN b ELSE a

\* dt of the control loops: the timestamp difference, 0 replaced by 1e-10 s.
\* The model keeps the 0 and treats it as that epsilon in the three
\* operators below.
\* x / dt
Quot(x, dt) ==
    IF x = NaN THEN NaN
    ELSE IF dt = 0 THEN Sign(x) * Huge
    ELSE x \div dt
\* abs(x / dt) > lim
RateAbove(x, dt, lim) ==
    IF x = NaN THEN FALSE
    ELSE IF dt = 0 THEN x # 0
    ELSE Abs(x) > lim * dt
\* abs(x / dt) < lim
RateBelow(x, dt, lim) ==
    IF x = NaN THEN FALSE
    ELSE IF dt = 0 THEN x = 0
    ELSE Abs(x) < lim * dt
\* lim * dt
LimTimes(lim, dt) == IF dt = 0 THEN EpsStep ELSE lim * dt

(***************************************************************************)
(* ADRSettings, in the model's units.                                      *)
(***************************************************************************)
ADRSettings ==
    [ PID_KP |-> 2,
      PID_KI |-> 0,
      PID_KD |-> 70,
      magup_dV |-> 3000,
      magnet_voltage_limit |-> 100000,
      current_limit |-> 9000000,
      voltage_limit |-> 2000000,
      dVdT_limit |-> 8000,
      dIdt_magup_limit |-> (9 * 1000000) \div (30 * 60),
      dIdt_regulate_limit |-> (9 * 1000000) \div (40 * 60),
      step_length |-> 1 ]

\* volts per kelvin, in microvolts per millikelvin
UvPerMk == 1000

(***************************************************************************)
(* What the instruments answer: for each call the set of values it may     *)
(* return, dt the seconds that may pass between two time stamps.  The      *)
(* three sets of answers vary what the mode logic, the mag-up ramp and the *)
(* poll cycle depend on.                                                   *)
(***************************************************************************)
ModeReadings ==
    [ diode |-> { <<60000, 3000>> },            \* (T_60K, T_3K)
      timeConst |-> { 0 },                      \* seconds
      ruox |-> { 100 },
      magnetV |-> { 50000 },
      psCurrent |-> { 8990000, 9000000 },
      psVoltage |-> { 1998000 },
      dt |-> { 1 },
      maxCycle |-> MaxCycle ]

RampReadings ==
    [ diode |-> { <<60000, 3000>> },
      timeConst |-> { 0 },
      ruox |-> { 100 },
      magnetV |-> { 50000, 100000 },
      psCurrent |-> { 8994000, 9000000 },
      psVoltage |-> { 0, 1998000 },
      dt |-> { 1 },
      maxCycle |-> MaxRampCycle ]

RegulateTemps == { 101 }                        \* arguments of the Regulate setting

(***************************************************************************)
(* The log and the named messages.                                         *)
(***************************************************************************)
Entry(message, alert) == <<message, alert>>
\* the 'Log Changed' message without the alert of the entry
LogChanged_NoAlert(entry) == [name |-> "Log Changed", payload |-> entry[1], alert |-> FALSE]
\* logMessage: the entry appended, and the 'Log Changed' message carrying it
LogChanged(entry) == [name |-> "Log Changed", payload |-> entry[1], alert |-> entry[2]]
Message(name, payload) == [name |-> name, payload |-> payload, alert |-> FALSE]
LogChangedAll(entries) == [i \in 1..Len(entries) |-> LogChanged(entries[i])]

(***************************************************************************)
(* __init__                                                                *)
(***************************************************************************)
InitState ==
    [ T_FAA |-> NaN, T_GGG |-> NaN, T_3K |-> NaN, T_60K |-> NaN,
      datetime |-> 0, cycle |-> 0, magnetV |-> NaN,
      RuOxChan |-> "FAA", RuOxChanSetTime |-> 0,
      PSCurrent |-> NaN, PSVoltage |-> NaN,
      PSConnected |-> FALSE, DiodeTempMonitorConnected |-> FALSE,
      RuoxTempMonitorConnected |-> FALSE, MagnetVMonitorConnected |-> FALSE,
      maggingUp |-> FALSE, regulating |-> FALSE,
      regulationTemp |-> 100, PID_cumulativeError |-> 0 ]

Init ==
    /\ state = InitState
    /\ lastState = InitState
    /\ logMessages = <<>>
    /\ pollPc = "initServer"
    /\ magUpLoops = 0
    /\ regulateLoops = 0
    /\ now = 0
    /\ tempRecords = 0
    /\ faults = 0
    /\ op = "init"
    /\ sent = <<>>
    /\ psWrites = <<>>
    /\ pidStep = <<>>
    /\ getLogCall = << >>

(***************************************************************************)
(* initializeInstruments: each instrument is selected in its own try       *)
(* block; ok[d] says whether the block of instrument d ran through.        *)
(***************************************************************************)
Devices == <<"PSConnected", "RuoxTempMonitorConnected",
             "DiodeTempMonitorConnected", "MagnetVMonitorConnected">>
ConnectedMessage ==
    [ PSConnected |-> "Power Supply Connected and initialized.",
      RuoxTempMonitorConnected |-> "Ruox Temperature Monitor Connected.",
      DiodeTempMonitorConnected |-> "Diode Temperature Monitor Connected.",
      MagnetVMonitorConnected |-> "Magnet Voltage Monitor Connected." ]
FailedMessage ==
    [ PSConnected |-> "Could not connect to Power Supply.",
      RuoxTempMonitorConnected |-> "Could not connect to Ruox Temperature Monitor.",
      DiodeTempMonitorConnected |-> "Could not connect to Diode Temperature Monitor.",
      MagnetVMonitorConnected |-> "Could not connect to Diode Temperature Monitor." ]

\* the log entries of the try block of Devices[i], given the state s
InstrumentEntries(s, ok, i) ==
    LET d == Devices[i] IN
    IF ok[d] THEN (IF s[d] = FALSE THEN << Entry(ConnectedMessage[d], FALSE) >> ELSE << >>)
    ELSE << Entry(FailedMessage[d], TRUE) >>

InitializeEntries(s, ok) ==
    InstrumentEntries(s, ok, 1) \o InstrumentEntries(s, ok, 2)
        \o InstrumentEntries(s, ok, 3) \o InstrumentEntries(s, ok, 4)

DeviceNames == {"PSConnected", "RuoxTempMonitorConnected",
                "DiodeTempMonitorConnected", "MagnetVMonitorConnected"}
ConnectOutcomes == [DeviceNames -> BOOLEAN]
\* the number of try blocks that raise
ConnectFailures(ok) == Cardinality({d \in DeviceNames : ~ok[d]})

initializeInstruments(L, ok) ==
    LET entries == InitializeEntries(state, ok) IN
    /\ Len(logMessages) + Len(entries) <= L
    /\ faults + ConnectFailures(ok) <= MaxFaults
    /\ faults' = faults + ConnectFailures(ok)
    /\ state' = [state EXCEPT !.PSConnected = ok.PSConnected,
                              !.RuoxTempMonitorConnected = ok.RuoxTempMonitorConnected,
                              !.DiodeTempMonitorConnected = ok.DiodeTempMonitorConnected,
                              !.MagnetVMonitorConnected = ok.MagnetVMonitorConnected]
    /\ logMessages' = logMessages \o entries
    /\ sent' = LogChangedAll(entries)
    /\ psWrites' = << >> /\ pidStep' = << >> /\ getLogCall' = << >>
    /\ UNCHANGED <<lastState, magUpLoops, regulateLoops, now, tempRecords>>


\* initServer: the instruments are initialized, then updateState is started.
initServer(L) ==
    /\ pollPc = "initServer"
    /\ \E ok \in ConnectOutcomes : initializeInstruments(L, ok)
    /\ pollPc' = "sleep"
    /\ op' = "initServer"

\* A 'GPIB Device Connect' or 'GPIB Device Disconnect' message.
gpib_device_connect(L) ==
    /\ pollPc # "initServer"
    /\ \E ok \in ConnectOutcomes : initializeInstruments(L, ok)
    /\ UNCHANGED pollPc
    /\ op' = "gpib_device_connect"

(***************************************************************************)
(* updateState: one action per stretch of code between two yields.         *)
(***************************************************************************)
\* state['datetime'] = now(); state['cycle'] += 1 (lines 239-240); the clock
\* has advanced by d since the time stamp before.
Stamp_NoCount(s, t) == [s EXCEPT !.datetime = t]
Stamp(s, t) == [s EXCEPT !.datetime = t, !.cycle = s.cycle + 1]

PollFrame == UNCHANGED <<logMessages, magUpLoops, regulateLoops>>

\* the wake-up without the copy of line 222
updateStateBegin_NoCopy(R) ==
    /\ pollPc = "sleep"
    /\ state.cycle < R.maxCycle
    /\ pollPc' = "diode"
    /\ op' = "updateState:begin"
    /\ sent' = << >> /\ psWrites' = << >> /\ pidStep' = << >> /\ getLogCall' = << >>
    /\ UNCHANGED <<state, lastState, now, tempRecords, faults>>
    /\ PollFrame

\* the wake-up: lastState = state.copy(), and the diode read is sent
updateStateBegin(R) ==
    /\ pollPc = "sleep"
    /\ state.cycle < R.maxCycle
    /\ lastState' = state
    /\ pollPc' = "diode"
    /\ op' = "updateState:begin"
    /\ sent' = << >> /\ psWrites' = << >> /\ pidStep' = << >> /\ getLogCall' = << >>
    /\ UNCHANGED <<state, now, tempRecords, faults>>
    /\ PollFrame

\* get_diode_temperatures answers or raises; get_time_constant is sent
updateStateDiode(R) ==
    /\ pollPc = "diode"
    /\ \/ \E r \in R.diode :
            /\ state' = [state EXCEPT !.T_60K = r[1], !.T_3K = r[2]]
            /\ op' = "updateState:diode"
            /\ UNCHANGED faults
       \/ /\ faults < MaxFaults
          /\ faults' = faults + 1
          /\ state' = [state EXCEPT !.T_60K = NaN, !.T_3K = NaN,
                                    !.DiodeTempMonitorConnected = FALSE]
          /\ op' = "updateState:diode failed"
    /\ pollPc' = "timeConst"
    /\ sent' = << >> /\ psWrites' = << >> /\ pidStep' = << >> /\ getLogCall' = << >>
    /\ UNCHANGED <<lastState, now, tempRecords>>
    /\ PollFrame

\* > where line 229 has >=
Settled_Strict(s, t, timeConst) == t - s.RuOxChanSetTime > 10 * timeConst
\* deltaT(now() - RuOxChanSetTime) >= 10*timeConst
Settled(s, t, timeConst) == t - s.RuOxChanSetTime >= 10 * timeConst

\* get_time_constant answers or raises
updateStateTimeConst(R) ==
    /\ pollPc = "timeConst"
    /\ \/ \E tc \in R.timeConst :
            /\ Settled(state, now, tc)
            /\ pollPc' = "ruox"
            /\ op' = "updateState:timeConst"
            /\ UNCHANGED <<state, now, faults>>
       \/ \E tc \in R.timeConst, d \in R.dt :
            /\ ~Settled(state, now, tc)
            /\ now' = now + d
            /\ state' = Stamp(state, now')
            /\ pollPc' = "magnetV"
            /\ op' = "updateState:ruox not settled"
            /\ UNCHANGED faults
       \/ \E d \in R.dt :
            /\ faults < MaxFaults
            /\ faults' = faults + 1
            /\ now' = now + d
            /\ state' = Stamp([state EXCEPT !.T_GGG = NaN, !.T_FAA = NaN,
                                            !.RuoxTempMonitorConnected = FALSE], now')
            /\ pollPc' = "magnetV"
            /\ op' = "updateState:ruox failed"
    /\ sent' = << >> /\ psWrites' = << >> /\ pidStep' = << >> /\ getLogCall' = << >>
    /\ UNCHANGED <<lastState, tempRecords>>
    /\ PollFrame

\* lines 230-232 without the out-of-range tests of lines 233-234
RuoxRead_NoSentinel(s, r) ==
    LET s1 == IF s.RuOxChan = "FAA" THEN [s EXCEPT !.T_FAA = r] ELSE [s EXCEPT !.T_GGG = r]
        s2 == IF s1.RuOxChan = "GGG" THEN [s1 EXCEPT !.T_FAA = NaN] ELSE s1
    IN  IF s2.RuOxChan = "FAA" THEN [s2 EXCEPT !.T_GGG = NaN] ELSE s2

\* lines 230-234: the reading goes to the selected channel, the other channel
\* and the out-of-range readings become nan
RuoxRead(s, r) ==
    LET s1 == IF s.RuOxChan = "FAA" THEN [s EXCEPT !.T_FAA = r] ELSE [s EXCEPT !.T_GGG = r]
        s2 == IF s1.RuOxChan = "GGG" THEN [s1 EXCEPT !.T_FAA = NaN] ELSE s1
        s3 == IF s2.RuOxChan = "FAA" THEN [s2 EXCEPT !.T_GGG = NaN] ELSE s2
        s4 == IF s3.T_GGG = 20000 THEN [s3 EXCEPT !.T_GGG = NaN] ELSE s3
    IN  IF s4.T_FAA = 45000 THEN [s4 EXCEPT !.T_FAA = NaN] ELSE s4

\* get_ruox_temperature answers or raises
updateStateRuox(R) ==
    /\ pollPc = "ruox"
    /\ \E d \in R.dt :
         /\ now' = now + d
         /\ \/ \E r \in R.ruox :
                 /\ state' = Stamp(RuoxRead(state, r), now')
                 /\ op' = "updateState:ruox"
                 /\ UNCHANGED faults
            \/ /\ faults < MaxFaults
               /\ faults' = faults + 1
               /\ state' = Stamp([state EXCEPT !.T_GGG = NaN, !.T_FAA = NaN,
                                               !.RuoxTempMonitorConnected = FALSE], now')
               /\ op' = "updateState:ruox failed"
    /\ pollPc' = "magnetV"
    /\ sent' = << >> /\ psWrites' = << >> /\ pidStep' = << >> /\ getLogCall' = << >>
    /\ UNCHANGED <<lastState, tempRecords>>
    /\ PollFrame

\* get_magnet_voltage answers, or raises and the exception leaves the loop
updateStateMagnetV_Fatal(R) ==
    /\ pollPc = "magnetV"
    /\ \/ \E r \in R.magnetV :
            /\ state' = [state EXCEPT !.magnetV = r]
            /\ pollPc' = "psCurrent"
            /\ op' = "updateState:magnetV"
            /\ UNCHANGED faults
       \/ /\ faults < MaxFaults
          /\ faults' = faults + 1
          /\ pollPc' = "stopped"
          /\ op' = "updateState:magnetV failed"
          /\ UNCHANGED state
    /\ sent' = << >> /\ psWrites' = << >> /\ pidStep' = << >> /\ getLogCall' = << >>
    /\ UNCHANGED <<lastState, now, tempRecords>>
    /\ PollFrame

\* get_magnet_voltage answers or raises
updateStateMagnetV(R) ==
    /\ pollPc = "magnetV"
    /\ \/ \E r \in R.magnetV :
            /\ state' = [state EXCEPT !.magnetV = r]
            /\ op' = "updateState:magnetV"
            /\ UNCHANGED faults
       \/ /\ faults < MaxFaults
          /\ faults' = faults + 1
          /\ state' = [state EXCEPT !.magnetV = NaN, !.MagnetVMonitorConnected = FALSE]
          /\ op' = "updateState:magnetV failed"
    /\ pollPc' = "psCurrent"
    /\ sent' = << >> /\ psWrites' = << >> /\ pidStep' = << >> /\ getLogCall' = << >>
    /\ UNCHANGED <<lastState, now, tempRecords>>
    /\ PollFrame

\* lines 249-251
PSFailed_CurrentOnly(s) == [s EXCEPT !.PSCurrent = NaN, !.PSConnected = FALSE]
PSFailed(s) == [s EXCEPT !.PSCurrent = NaN, !.PSVoltage = NaN, !.PSConnected = FALSE]

\* ps.current() answers or raises
updateStatePSCurrent(R) ==
    /\ pollPc = "psCurrent"
    /\ \/ \E r \in R.psCurrent :
            /\ state' = [state EXCEPT !.PSCurrent = r]
            /\ pollPc' = "psVoltage"
            /\ op' = "updateState:psCurrent"
            /\ UNCHANGED faults
       \/ /\ faults < MaxFaults
          /\ faults' = faults + 1
          /\ state' = PSFailed(state)
          /\ pollPc' = "persist"
          /\ op' = "updateState:ps failed"
    /\ sent' = << >> /\ psWrites' = << >> /\ pidStep' = << >> /\ getLogCall' = << >>
    /\ UNCHANGED <<lastState, now, tempRecords>>
    /\ PollFrame

\* ps.voltage() answers or raises
updateStatePSVoltage(R) ==
    /\ pollPc = "psVoltage"
    /\ \/ \E r \in R.psVoltage :
            /\ state' = [state EXCEPT !.PSVoltage = r]
            /\ op' = "updateState:psVoltage"
            /\ UNCHANGED faults
       \/ /\ faults < MaxFaults
          /\ faults' = faults + 1
          /\ state' = PSFailed(state)
          /\ op' = "updateState:ps failed"
    /\ pollPc' = "persist"
    /\ sent' = << >> /\ psWrites' = << >> /\ pidStep' = << >> /\ getLogCall' = << >>
    /\ UNCHANGED <<lastState, now, tempRecords>>
    /\ PollFrame

\* the registry answers: the record is appended to the .temps file, 'State
\* Changed' is sent and the coroutine sleeps until the next cycle
updateStatePersist(R) ==
    /\ pollPc = "persist"
    /\ tempRecords' = tempRecords + 1
    /\ sent' = << Message("State Changed", "state changed") >>
    /\ psWrites' = << >> /\ pidStep' = << >> /\ getLogCall' = << >>
    /\ pollPc' = "sleep"
    /\ op' = "updateState:persist"
    /\ UNCHANGED <<state, lastState, now, faults>>
    /\ PollFrame

updateState(R) ==
    \/ updateStateBegin(R)
    \/ updateStateDiode(R)
    \/ updateStateTimeConst(R)
    \/ updateStateRuox(R)
    \/ updateStateMagnetV(R)
    \/ updateStatePSCurrent(R)
    \/ updateStatePSVoltage(R)
    \/ updateStatePersist(R)

(***************************************************************************)
(* _magUp and _cancelMagUp                                                 *)
(***************************************************************************)
\* dt of a control iteration (0 stands for the 1e-10 s that replaces it)
LoopDt(s, ls) == s.datetime - ls.datetime

\* line 298: the back-EMF and the current slew rate allow a step
MagUpMayStep_NoBackEmf(s, ls) ==
    RateBelow(Sub(s.PSCurrent, ls.PSCurrent), LoopDt(s, ls), ADRSettings.dIdt_magup_limit)
MagUpMayStep(s, ls) ==
    /\ Lt(s.magnetV, ADRSettings.magnet_voltage_limit)
    /\ RateBelow(Sub(s.PSCurrent, ls.PSCurrent), LoopDt(s, ls), ADRSettings.dIdt_magup_limit)

\* lines 299-302: the voltage written
MagUpVoltage_Unclamped(s) == Add(s.PSVoltage, ADRSettings.magup_dV)
MagUpVoltage(s) ==
    LET newVoltage == Add(s.PSVoltage, ADRSettings.magup_dV) IN
    IF Lt(newVoltage, ADRSettings.voltage_limit) THEN newVoltage
    ELSE ADRSettings.voltage_limit

\* line 297
MagUpBelowLimit_Inclusive(s) == Le(s.PSCurrent, ADRSettings.current_limit)
MagUpBelowLimit(s) == Lt(s.PSCurrent, ADRSettings.current_limit)

\* One pass of the body of `while self.state['maggingUp']` (lines 293-310):
\* what it writes, logs and sends, the flag it leaves, and whether the
\* coroutine then sleeps (and so lives on) or falls out of the loop.
MagUpIteration(s, ls) ==
    IF MagUpBelowLimit(s)
    THEN [ writes |-> IF MagUpMayStep(s, ls) THEN << MagUpVoltage(s) >> ELSE << >>,
           entries |-> << >>,
           messages |-> << >>,
           maggingUp |-> s.maggingUp,
           sleeps |-> TRUE ]
    ELSE [ writes |-> << >>,
           entries |-> << Entry("Finished magging up.", FALSE) >>,
           messages |-> << LogChanged(Entry("Finished magging up.", FALSE)),
                           Message("MagUp Stopped", "done") >>,
           maggingUp |-> FALSE,
           sleeps |-> FALSE ]

\* line 277
MagUpAlready(s) == s.maggingUp = TRUE
\* line 280
MagUpWhileRegulating_Unchecked(s) == FALSE
MagUpWhileRegulating(s) == s.regulating = TRUE
\* lines 283-285
MagUpDevicesConnected_PSOnly(s) == s.PSConnected
MagUpDevicesConnected(s) == s.PSConnected /\ s.MagnetVMonitorConnected

\* the entries _magUp logs when it refuses (lines 278, 281, 286-287)
MagUpAlreadyEntry == Entry("Already magging up.", FALSE)
MagUpWhileRegulatingEntry ==
    Entry("Currently in PID control loop regulation. Please wait until finished.", FALSE)
MagUpNotConnectedEntry_NoAlert ==
    Entry("Cannot mag up: At least one of the essential devices is not connected.", FALSE)
MagUpNotConnectedEntry ==
    Entry("Cannot mag up: At least one of the essential devices is not connected.", TRUE)

\* a command that is refused: one log entry, nothing else
Refuse(L, entry, outcome) ==
    /\ Len(logMessages) + 1 <= L
    /\ logMessages' = Append(logMessages, entry)
    /\ sent' = << LogChanged(entry) >>
    /\ psWrites' = << >> /\ pidStep' = << >> /\ getLogCall' = << >>
    /\ op' = outcome
    /\ UNCHANGED <<state, magUpLoops, regulateLoops>>

CommandFrame == UNCHANGED <<lastState, pollPc, now, tempRecords, faults>>

\* The 'Mag Up' setting: _magUp up to its first wakeupCall.
magUp(L) ==
    /\ pollPc # "initServer"
    /\ CommandFrame
    /\ IF MagUpAlready(state)
       THEN Refuse(L, MagUpAlreadyEntry, "magUp:already magging up")
       ELSE IF MagUpWhileRegulating(state)
       THEN Refuse(L, MagUpWhileRegulatingEntry, "magUp:regulating")
       ELSE IF ~MagUpDevicesConnected(state)
       THEN Refuse(L, MagUpNotConnectedEntry, "magUp:not connected")
       ELSE LET begin == Entry("Beginning to mag up.", FALSE)
                it == MagUpIteration([state EXCEPT !.maggingUp = TRUE], lastState)
            IN  /\ Len(logMessages) + 1 + Len(it.entries) <= L
                /\ magUpLoops < MaxLoops
                /\ logMessages' = Append(logMessages, begin) \o it.entries
                /\ sent' = << Message("MagUp Started", "start"), LogChanged(begin) >>
                               \o it.messages
                /\ psWrites' = it.writes /\ pidStep' = << >> /\ getLogCall' = << >>
                /\ state' = [state EXCEPT !.maggingUp = it.maggingUp]
                /\ magUpLoops' = IF it.sleeps THEN magUpLoops + 1 ELSE magUpLoops
                /\ op' = IF it.sleeps THEN "magUp:started" ELSE "magUp:started and done"
                /\ UNCHANGED regulateLoops

\* A _magUp coroutine wakes up from wakeupCall: the loop condition, then
\* one more pass or the end of the coroutine.
\* the flag is not looked at when the coroutine wakes
magUpWake_Unchecked(L) ==
    /\ magUpLoops > 0
    /\ CommandFrame
    /\ UNCHANGED regulateLoops
    /\ LET it == MagUpIteration(state, lastState) IN
            /\ Len(logMessages) + Len(it.entries) <= L
            /\ logMessages' = logMessages \o it.entries
            /\ sent' = it.messages
            /\ psWrites' = it.writes /\ pidStep' = << >> /\ getLogCall' = << >>
            /\ state' = [state EXCEPT !.maggingUp = it.maggingUp]
            /\ magUpLoops' = IF it.sleeps THEN magUpLoops ELSE magUpLoops - 1
            /\ op' = IF it.sleeps THEN "magUpLoop:iteration" ELSE "magUpLoop:done"

magUpWake(L) ==
    /\ magUpLoops > 0
    /\ CommandFrame
    /\ UNCHANGED regulateLoops
    /\ IF ~state.maggingUp
       THEN /\ magUpLoops' = magUpLoops - 1
            /\ op' = "magUpLoop:exit"
            /\ sent' = << >> /\ psWrites' = << >> /\ pidStep' = << >> /\ getLogCall' = << >>
            /\ UNCHANGED <<state, logMessages>>
       ELSE LET it == MagUpIteration(state, lastState) IN
            /\ Len(logMessages) + Len(it.entries) <= L
            /\ logMessages' = logMessages \o it.entries
            /\ sent' = it.messages
            /\ psWrites' = it.writes /\ pidStep' = << >> /\ getLogCall' = << >>
            /\ state' = [state EXCEPT !.maggingUp = it.maggingUp]
            /\ magUpLoops' = IF it.sleeps THEN magUpLoops ELSE magUpLoops - 1
            /\ op' = IF it.sleeps THEN "magUpLoop:iteration" ELSE "magUpLoop:done"

\* The 'Cancel Mag Up' setting: _cancelMagUp.
\* line 267: the entry _cancelMagUp logs
CancelMagUpEntry_Alert == Entry("Magging up stopped.", TRUE)
CancelMagUpEntry == Entry("Magging up stopped.", FALSE)

\* a cancel that clears both mode flags
cancelMagUp_Both(L) ==
    /\ pollPc # "initServer"
    /\ CommandFrame
    /\ Len(logMessages) + 1 <= L
    /\ state' = [state EXCEPT !.maggingUp = FALSE, !.regulating = FALSE]
    /\ logMessages' = Append(logMessages, CancelMagUpEntry)
    /\ sent' = << LogChanged(CancelMagUpEntry),
                  Message("MagUp Stopped", "cancel") >>
    /\ psWrites' = << >> /\ pidStep' = << >> /\ getLogCall' = << >>
    /\ op' = IF state.maggingUp THEN "cancelMagUp:active" ELSE "cancelMagUp:idle"
    /\ UNCHANGED <<magUpLoops, regulateLoops>>

cancelMagUp(L) ==
    /\ pollPc # "initServer"
    /\ CommandFrame
    /\ Len(logMessages) + 1 <= L
    /\ state' = [state EXCEPT !.maggingUp = FALSE]
    /\ logMessages' = Append(logMessages, CancelMagUpEntry)
    /\ sent' = << LogChanged(CancelMagUpEntry),
                  Message("MagUp Stopped", "cancel") >>
    /\ psWrites' = << >> /\ pidStep' = << >> /\ getLogCall' = << >>
    /\ op' = IF state.maggingUp THEN "cancelMagUp:active" ELSE "cancelMagUp:idle"
    /\ UNCHANGED <<magUpLoops, regulateLoops>>

(***************************************************************************)
(* _regulate and _cancelRegulate                                           *)
(***************************************************************************)
\* lines 352-355: the error, and the voltage step the PID proposes
\* measured minus target
PIDError_Reversed(s) == Sub(s.T_FAA, s.regulationTemp)
PIDError(s) == Sub(s.regulationTemp, s.T_FAA)

PIDProposal(s, ls) ==
    LET err == PIDError(s)
        cum == Add(s.PID_cumulativeError, err)
    IN  Add(Add(Mul(Mul(ADRSettings.PID_KP, err), UvPerMk),
                Mul(Mul(ADRSettings.PID_KI, cum), UvPerMk)),
            Quot(Mul(Mul(ADRSettings.PID_KD, Sub(ls.T_FAA, s.T_FAA)), UvPerMk),
                 LoopDt(s, ls)))

\* lines 357-358: hard current limit
ClampCurrent(s, dV) ==
    IF Gt(s.PSCurrent, ADRSettings.current_limit) /\ Gt(dV, 0) THEN 0 ELSE dV

\* lines 360-361: hard voltage limit
ClampVoltage(s, dV) ==
    IF Gt(Add(s.PSVoltage, dV), ADRSettings.voltage_limit)
    THEN Sub(ADRSettings.voltage_limit, s.PSVoltage)
    ELSE dV

\* min where line 364 has max
ClampEmfDown_Min(s, dV) ==
    IF Lt(dV, 0)
    THEN LET m == PyMin(dV, Sub(s.magnetV, ADRSettings.magnet_voltage_limit))
         IN  IF Gt(m, 0) THEN 0 ELSE m
    ELSE dV

\* lines 363-365: steady state limit, voltage going down
ClampEmfDown(s, dV) ==
    IF Lt(dV, 0)
    THEN LET m == PyMax(dV, Sub(s.magnetV, ADRSettings.magnet_voltage_limit))
         IN  IF Gt(m, 0) THEN 0 ELSE m
    ELSE dV

\* lines 366-368: steady state limit, voltage going up
ClampEmfUp(s, dV) ==
    IF Gt(dV, 0)
    THEN LET m == PyMin(dV, Sub(ADRSettings.magnet_voltage_limit, s.magnetV))
         IN  IF Lt(m, 0) THEN 0 ELSE m
    ELSE dV

\* lines 370-372: limit on dV/dt
ClampSlew(s, ls, dV) ==
    IF RateAbove(dV, LoopDt(s, ls), ADRSettings.dVdT_limit)
    THEN LimTimes(ADRSettings.dVdT_limit, LoopDt(s, ls)) * Sign(dV)
    ELSE dV

\* the limit on the observed dI/dt, looking at the proposed step instead
ClampCurrentSlew_Proposed(s, ls, dV) ==
    IF RateAbove(dV, LoopDt(s, ls), ADRSettings.dIdt_regulate_limit)
    THEN 0
    ELSE dV

\* lines 374-375: limit on the observed dI/dt
ClampCurrentSlew(s, ls, dV) ==
    IF RateAbove(Sub(s.PSCurrent, ls.PSCurrent), LoopDt(s, ls),
                 ADRSettings.dIdt_regulate_limit)
    THEN 0
    ELSE dV

\* lines 356-375: the cascade, in the order of the code
ClampCascade(s, ls, dV) ==
    ClampCurrentSlew(s, ls,
        ClampSlew(s, ls,
            ClampEmfUp(s, ClampEmfDown(s, ClampVoltage(s, ClampCurrent(s, dV))))))

\* line 343: `is numpy.nan`; every nan of the state is that object
FAAInvalid(s) == s.T_FAA = NaN

\* line 378
GoesNegative_Strict(s, dV) == Lt(Add(s.PSVoltage, dV), 0)
GoesNegative(s, dV) == Le(Add(s.PSVoltage, dV), 0)

\* lines 378-383: the writes of a pass whose clamped step is dV
RegulateWrites(s, dV) ==
    IF GoesNegative(s, dV)
    THEN << 0, Add(s.PSVoltage, 0) >>
    ELSE << Add(s.PSVoltage, dV) >>

\* One pass of the body of `while self.state['regulating']` (lines 341-390).
RegulateIteration(s, ls) ==
    LET invalid == FAAInvalid(s)
        cancelEntries ==
            IF invalid
            THEN << Entry("FAA temp is not valid.  Regulation cannot continue.", FALSE),
                    Entry("PID Control stopped.", FALSE) >>
            ELSE << >>
        cancelMessages ==
            IF invalid
            THEN << LogChanged(cancelEntries[1]), LogChanged(cancelEntries[2]),
                    Message("Regulation Stopped", "cancel") >>
            ELSE << >>
        cum == Add(s.PID_cumulativeError, PIDError(s))
        proposed == PIDProposal(s, ls)
        dV == ClampCascade(s, ls, proposed)
        again == ~GoesNegative(s, dV)
        doneEntry == Entry("Regulation has completed. Mag up and try again.", FALSE)
    IN  [ proposed |-> proposed,
          dV |-> dV,
          writes |-> RegulateWrites(s, dV),
          entries |-> IF again THEN cancelEntries ELSE Append(cancelEntries, doneEntry),
          messages |-> IF again THEN cancelMessages
                       ELSE cancelMessages \o << LogChanged(doneEntry),
                                                 Message("Regulation Stopped", "done") >>,
          regulating |-> IF invalid \/ ~again THEN FALSE ELSE s.regulating,
          cumulativeError |-> cum,
          sleeps |-> again ]

\* lines 329-331
RegulateDevicesConnected_NoDiode(s) ==
    /\ s.PSConnected
    /\ s.RuoxTempMonitorConnected
    /\ s.MagnetVMonitorConnected
RegulateDevicesConnected(s) ==
    /\ s.PSConnected
    /\ s.DiodeTempMonitorConnected
    /\ s.RuoxTempMonitorConnected
    /\ s.MagnetVMonitorConnected

\* line 322
RegulateWhileMaggingUp_Unchecked(s) == FALSE
RegulateWhileMaggingUp(s) == s.maggingUp = TRUE
\* line 325
RegulateAlready_Unchecked(s) == FALSE
RegulateAlready(s) == s.regulating = TRUE

\* the entries _regulate logs when it refuses (lines 323, 332-333)
RegulateWhileMaggingUpEntry ==
    Entry("Currently magging up. Please wait until finished.", FALSE)
RegulateNotConnectedEntry ==
    Entry("Cannot regulate: At least one of the essential devices is not connected.", TRUE)

\* the accumulator stays within the bound of the model
AccWithinBound(acc) == acc = NaN \/ (acc <= MaxAcc /\ -acc <= MaxAcc)

\* The 'Regulate' setting: _regulate(temp) up to its first wakeupCall.
regulate(L, temp) ==
    /\ pollPc # "initServer"
    /\ CommandFrame
    /\ IF RegulateWhileMaggingUp(state)
       THEN Refuse(L, RegulateWhileMaggingUpEntry, "regulate:magging up")
       ELSE IF RegulateAlready(state)
       THEN /\ Len(logMessages) + 1 <= L
            /\ state' = [state EXCEPT !.regulationTemp = temp]
            /\ logMessages' = Append(logMessages, Entry("Setting regulation temperature.", FALSE))
            /\ sent' = << LogChanged(Entry("Setting regulation temperature.", FALSE)) >>
            /\ psWrites' = << >> /\ pidStep' = << >> /\ getLogCall' = << >>
            /\ op' = "regulate:retarget"
            /\ UNCHANGED <<magUpLoops, regulateLoops>>
       ELSE IF ~RegulateDevicesConnected(state)
       THEN Refuse(L, RegulateNotConnectedEntry, "regulate:not connected")
       ELSE LET begin == Entry("Starting regulation.", FALSE)
                it == RegulateIteration([state EXCEPT !.regulating = TRUE], lastState)
            IN  /\ Len(logMessages) + 1 + Len(it.entries) <= L
                /\ regulateLoops < MaxLoops
                /\ AccWithinBound(it.cumulativeError)
                /\ logMessages' = Append(logMessages, begin) \o it.entries
                /\ sent' = << Message("Regulation Started", "start"), LogChanged(begin) >>
                               \o it.messages
                /\ psWrites' = it.writes /\ pidStep' = << it.proposed, it.dV >>
                /\ getLogCall' = << >>
                /\ state' = [state EXCEPT !.regulating = it.regulating,
                                          !.PID_cumulativeError = it.cumulativeError]
                /\ regulateLoops' = IF it.sleeps THEN regulateLoops + 1 ELSE regulateLoops
                /\ op' = IF FAAInvalid(state) THEN "regulate:started and cancelled"
                         ELSE IF it.sleeps THEN "regulate:started"
                         ELSE "regulate:started and done"
                /\ UNCHANGED magUpLoops

\* A _regulate coroutine wakes up from wakeupCall.
\* a pass that marks the supply disconnected when it ends the run
regulateWake_Disconnects(L) ==
    /\ regulateLoops > 0
    /\ CommandFrame
    /\ UNCHANGED magUpLoops
    /\ IF ~state.regulating
       THEN /\ regulateLoops' = regulateLoops - 1
            /\ op' = "regulateLoop:exit"
            /\ sent' = << >> /\ psWrites' = << >> /\ pidStep' = << >> /\ getLogCall' = << >>
            /\ UNCHANGED <<state, logMessages>>
       ELSE LET it == RegulateIteration(state, lastState) IN
            /\ Len(logMessages) + Len(it.entries) <= L
            /\ AccWithinBound(it.cumulativeError)
            /\ logMessages' = logMessages \o it.entries
            /\ sent' = it.messages
            /\ psWrites' = it.writes /\ pidStep' = << it.proposed, it.dV >>
                /\ getLogCall' = << >>
            /\ state' = [state EXCEPT !.regulating = it.regulating,
                                      !.PID_cumulativeError = it.cumulativeError,
                                      !.PSConnected = it.regulating]
            /\ regulateLoops' = IF it.sleeps THEN regulateLoops ELSE regulateLoops - 1
            /\ op' = IF FAAInvalid(state) THEN "regulateLoop:cancelled"
                     ELSE IF it.sleeps THEN "regulateLoop:iteration"
                     ELSE "regulateLoop:done"

regulateWake(L) ==
    /\ regulateLoops > 0
    /\ CommandFrame
    /\ UNCHANGED magUpLoops
    /\ IF ~state.regulating
       THEN /\ regulateLoops' = regulateLoops - 1
            /\ op' = "regulateLoop:exit"
            /\ sent' = << >> /\ psWrites' = << >> /\ pidStep' = << >> /\ getLogCall' = << >>
            /\ UNCHANGED <<state, logMessages>>
       ELSE LET it == RegulateIteration(state, lastState) IN
            /\ Len(logMessages) + Len(it.entries) <= L
            /\ AccWithinBound(it.cumulativeError)
            /\ logMessages' = logMessages \o it.entries
            /\ sent' = it.messages
            /\ psWrites' = it.writes /\ pidStep' = << it.proposed, it.dV >>
                /\ getLogCall' = << >>
            /\ state' = [state EXCEPT !.regulating = it.regulating,
                                      !.PID_cumulativeError = it.cumulativeError]
            /\ regulateLoops' = IF it.sleeps THEN regulateLoops ELSE regulateLoops - 1
            /\ op' = IF FAAInvalid(state) THEN "regulateLoop:cancelled"
                     ELSE IF it.sleeps THEN "regulateLoop:iteration"
                     ELSE "regulateLoop:done"

\* The 'Cancel Regulation' setting: _cancelRegulate.
\* line 313: the entry _cancelRegulate logs
CancelRegulateEntry == Entry("PID Control stopped.", FALSE)

cancelRegulation(L) ==
    /\ pollPc # "initServer"
    /\ CommandFrame
    /\ Len(logMessages) + 1 <= L
    /\ state' = [state EXCEPT !.regulating = FALSE]
    /\ logMessages' = Append(logMessages, CancelRegulateEntry)
    /\ sent' = << LogChanged(CancelRegulateEntry),
                  Message("Regulation Stopped", "cancel") >>
    /\ psWrites' = << >> /\ pidStep' = << >> /\ getLogCall' = << >>
    /\ op' = IF state.regulating THEN "cancelRegulation:active" ELSE "cancelRegulation:idle"
    /\ UNCHANGED <<magUpLoops, regulateLoops>>

(***************************************************************************)
(* The server.                                                             *)
(***************************************************************************)
Next ==
    \/ initServer(MaxLog)
    \/ updateState(ModeReadings)
    \/ magUp(MaxLog)
    \/ magUpWake(MaxLog)
    \/ cancelMagUp(MaxLog)
    \/ \E temp \in RegulateTemps : regulate(MaxLog, temp)
    \/ regulateWake(MaxLog)
    \/ cancelRegulation(MaxLog)

Spec == Init /\ [][Next]_vars

\* The server while only the Mag Up setting is called.
NextRamp ==
    \/ initServer(MaxLog)
    \/ updateState(RampReadings)
    \/ magUp(MaxLog)
    \/ magUpWake(MaxLog)

SpecRamp == Init /\ [][NextRamp]_vars

(***************************************************************************)
(* The PID pass on its own: a _regulate coroutine is asleep, and the two   *)
(* snapshots hold any readings two poll cycles can leave.                  *)
(***************************************************************************)
PIDReadings ==
    [ ruox |-> { NaN, 99, 100, 101 },
      magnetV |-> { NaN, 50000, 98000, 102000 },
      psCurrent |-> { NaN, 8996000, 9000000, 9004000 },
      psVoltage |-> { -2000, 0, 2000, 1998000, 2002000 },
      dt |-> { 1, 2 } ]

\* the log once every instrument has connected and regulation has started
RegulatingLog ==
    << Entry(ConnectedMessage.PSConnected, FALSE),
       Entry(ConnectedMessage.RuoxTempMonitorConnected, FALSE),
       Entry(ConnectedMessage.DiodeTempMonitorConnected, FALSE),
       Entry(ConnectedMessage.MagnetVMonitorConnected, FALSE),
       Entry("Starting regulation.", FALSE) >>

\* The state after two poll cycles that read t, m, i, v (the cycle before:
\* tl, il), d seconds apart, a nan being a call that raised.
PolledState(t, m, i, v, tl, il, d) ==
    [ InitState EXCEPT
        !.T_FAA = t, !.T_60K = 60000, !.T_3K = 3000,
        !.datetime = 1 + d, !.cycle = 2, !.magnetV = m,
        !.PSCurrent = i, !.PSVoltage = IF i = NaN THEN NaN ELSE v,
        !.PSConnected = (i # NaN /\ il # NaN),
        !.DiodeTempMonitorConnected = TRUE,
        !.RuoxTempMonitorConnected = (t # NaN /\ tl # NaN),
        !.MagnetVMonitorConnected = (m # NaN),
        !.regulating = TRUE ]

InitPID ==
    \E t, tl \in PIDReadings.ruox, m \in PIDReadings.magnetV,
       i, il \in PIDReadings.psCurrent, v \in PIDReadings.psVoltage,
       d \in PIDReadings.dt, midCycle \in BOOLEAN :
        LET s == PolledState(t, m, i, v, tl, il, d) IN
        /\ state = s
        \* between two cycles, or just after lastState = state.copy()
        /\ lastState = IF midCycle THEN s
                       ELSE [ s EXCEPT !.T_FAA = tl, !.PSCurrent = il,
                                       !.PSVoltage = IF il = NaN THEN NaN ELSE v,
                                       !.datetime = 1, !.cycle = 1, !.regulating = FALSE ]
        /\ midCycle => (tl = t /\ il = i)
        /\ pollPc = IF midCycle THEN "diode" ELSE "sleep"
        /\ op = IF midCycle THEN "updateState:begin" ELSE "updateState:persist"
        /\ sent = IF midCycle THEN << >> ELSE << Message("State Changed", "state changed") >>
        /\ logMessages = RegulatingLog
        /\ magUpLoops = 0
        /\ regulateLoops = 1
        /\ now = 1 + d
        /\ tempRecords = 2
        /\ faults = 0
        /\ psWrites = << >>
        /\ pidStep = << >>
        /\ getLogCall = << >>

NextPID == regulateWake(MaxPIDLog)

SpecPID == InitPID /\ [][NextPID]_vars

(***************************************************************************)
(* Regulation runs one after another: regulate and cancel commands and the *)
(* wake-ups of the PID loops, from a server whose instruments are all      *)
(* connected and polled, between two poll cycles.                          *)
(***************************************************************************)
RunReadings ==
    [ ruox |-> { 99, 100, 101 },
      psVoltage |-> { 0, 2000, 1998000 } ]

InitRuns ==
    \E t, tl \in RunReadings.ruox, v \in RunReadings.psVoltage :
        LET s == [ PolledState(t, 50000, 8996000, v, tl, 8996000, 1)
                     EXCEPT !.regulating = FALSE ] IN
        /\ state = s
        /\ lastState = [ s EXCEPT !.T_FAA = tl, !.datetime = 1, !.cycle = 1 ]
        /\ pollPc = "sleep"
        /\ op = "updateState:persist"
        /\ sent = << Message("State Changed", "state changed") >>
        /\ logMessages = SubSeq(RegulatingLog, 1, 4)
        /\ magUpLoops = 0
        /\ regulateLoops = 0
        /\ now = 2
        /\ tempRecords = 2
        /\ faults = 0
        /\ psWrites = << >>
        /\ pidStep = << >>
        /\ getLogCall = << >>

NextRuns ==
    \/ \E temp \in RegulateTemps : regulate(MaxRunLog, temp)
    \/ regulateWake(MaxRunLog)
    \/ cancelRegulation(MaxRunLog)

SpecRuns == InitRuns /\ [][NextRuns]_vars

(***************************************************************************)
(* The poll loop alone, over RuOx readings that include the out-of-range   *)
(* values 45.0 K and 20.0 K, with a time constant of 1 s and cycles 1 s or *)
(* 10 s apart, so that the reader has or has not settled at the second     *)
(* cycle.  __init__ selects the channel 'FAA'; lines 230-233 provide for   *)
(* 'GGG' as well, and the RuOx block is run for both.                      *)
(***************************************************************************)
RuoxReadings ==
    [ diode |-> { <<60000, 3000>> },
      timeConst |-> { 1 },
      ruox |-> { 100, 20000, 45000 },
      magnetV |-> { 50000 },
      psCurrent |-> { 8994000 },
      psVoltage |-> { 1998000 },
      dt |-> { 1, 10 },
      maxCycle |-> MaxRuoxCycle ]

RuoxChannels == { "FAA", "GGG" }

InitRuox ==
    /\ \E chan \in RuoxChannels :
          /\ state = [InitState EXCEPT !.RuOxChan = chan]
          /\ lastState = [InitState EXCEPT !.RuOxChan = chan]
    /\ logMessages = << >>
    /\ pollPc = "initServer"
    /\ magUpLoops = 0
    /\ regulateLoops = 0
    /\ now = 0
    /\ tempRecords = 0
    /\ faults = 0
    /\ op = "init"
    /\ sent = << >>
    /\ psWrites = << >>
    /\ pidStep = << >>
    /\ getLogCall = << >>

NextRuox ==
    \/ initServer(MaxLog)
    \/ updateState(RuoxReadings)

SpecRuox == InitRuox /\ [][NextRuox]_vars

(***************************************************************************)
(* The 'Add To Log' and 'Get Log' settings.                                *)
(***************************************************************************)
\* q[i:] of Python, for a list q and an integer i
PySliceFrom(q, i) ==
    LET len == Len(q)
        start == IF i < 0 THEN (IF len + i < 0 THEN 0 ELSE len + i)
                 ELSE (IF i > len THEN len ELSE i)
    IN  SubSeq(q, start + 1, len)

\* the first entries instead of the last: logMessages[:n]
GetLogEntries_Head(log, n) ==
    LET n1 == IF n = 0 THEN Len(log) ELSE n
        n2 == IF Len(log) < n1 THEN Len(log) ELSE n1
    IN  SubSeq(log, 1, n2)

\* lines 395-397: what getLog returns for the log and the argument n
GetLogEntries(log, n) ==
    LET n1 == IF n = 0 THEN Len(log) ELSE n
        n2 == IF Len(log) < n1 THEN Len(log) ELSE n1      \* min(n, len(...))
    IN  PySliceFrom(log, -n2)

getLog(n) ==
    /\ getLogCall' = << n, GetLogEntries(logMessages, n) >>
    /\ op' = "getLog"
    /\ sent' = << >> /\ psWrites' = << >> /\ pidStep' = << >>
    /\ UNCHANGED <<state, logMessages, magUpLoops, regulateLoops>>
    /\ CommandFrame

\* addToLog: logMessage(message), unless the message is None
addToLog(L, message) ==
    /\ CommandFrame
    /\ IF message # "None"
       THEN /\ Len(logMessages) + 1 <= L
            /\ logMessages' = Append(logMessages, Entry(message, FALSE))
            /\ sent' = << LogChanged(Entry(message, FALSE)) >>
       ELSE /\ sent' = << >>
            /\ UNCHANGED logMessages
    /\ psWrites' = << >> /\ pidStep' = << >> /\ getLogCall' = << >>
    /\ op' = "addToLog"
    /\ UNCHANGED <<state, magUpLoops, regulateLoops>>

\* The log of a running server, as the settings that write to it have left
\* it, and the arguments of the two settings.
LogTexts == { "note 1", "note 2", "None" }
LogEntries == { Entry("note 1", FALSE), Entry("note 2", FALSE),
                Entry(FailedMessage.PSConnected, TRUE) }
Logs == UNION { [1..k -> LogEntries] : k \in 0..(MaxGetLog - 1) }
GetLogCounts == 0..(MaxGetLog + 1)

InitLog ==
    /\ state = InitState
    /\ lastState = InitState
    /\ logMessages \in Logs
    /\ pollPc = "sleep"
    /\ magUpLoops = 0
    /\ regulateLoops = 0
    /\ now = 0
    /\ tempRecords = 0
    /\ faults = 0
    /\ op = "initServer"
    /\ sent = << >>
    /\ psWrites = << >>
    /\ pidStep = << >>
    /\ getLogCall = << >>

NextLog ==
    \/ \E message \in LogTexts : addToLog(MaxGetLog, message)
    \/ \E n \in GetLogCounts : getLog(n)

SpecLog == InitLog /\ [][NextLog]_vars

(***************************************************************************)
(* The server with its start settings and the GPIB connect messages, under *)
(* the scheduling of the reactor: a deferred whose instrument call has     *)
(* answered or raised, and a wakeupCall whose delay has passed, is         *)
(* eventually resumed.  The RuOx reader has settled at the first cycle     *)
(* (time constant 0) or not within these cycles (time constant 1 s).       *)
(***************************************************************************)
PollReadings ==
    [ diode |-> { <<60000, 3000>> },
      timeConst |-> { 0, 1 },
      ruox |-> { 100 },
      magnetV |-> { 50000 },
      psCurrent |-> { 8994000 },
      psVoltage |-> { 1998000 },
      dt |-> { 1 },
      maxCycle |-> MaxPollCycle ]

NextPoll ==
    \/ initServer(MaxPollLog)
    \/ updateState(PollReadings)
    \/ magUp(MaxPollLog)
    \/ magUpWake(MaxPollLog)
    \/ \E temp \in RegulateTemps : regulate(MaxPollLog, temp)
    \/ regulateWake(MaxPollLog)

SpecPoll ==
    /\ Init /\ [][NextPoll]_vars
    /\ WF_vars(initServer(MaxPollLog))
    /\ WF_vars(updateState(PollReadings))

(***************************************************************************)
(* The properties.  A step is told by the op it leaves: every action sets  *)
(* op to its own name and outcome.                                         *)
(***************************************************************************)
MagUpCommandOps ==
    { "magUp:already magging up", "magUp:regulating", "magUp:not connected",
      "magUp:started", "magUp:started and done" }
RegulateCommandOps ==
    { "regulate:magging up", "regulate:retarget", "regulate:not connected",
      "regulate:started", "regulate:started and done", "regulate:started and cancelled" }
\* the steps that run one pass of the ramp loop
RampPassOps ==
    { "magUp:started", "magUp:started and done", "magUpLoop:iteration", "magUpLoop:done" }
\* the steps that run one pass of the PID loop
PIDPassOps ==
    { "regulate:started", "regulate:started and done", "regulate:started and cancelled",
      "regulateLoop:iteration", "regulateLoop:done", "regulateLoop:cancelled" }

Names(messages) == { messages[i].name : i \in DOMAIN messages }
Last(q) == q[Len(q)]
\* q is p with exactly one entry appended
OneAppended(p, q) == Len(q) = Len(p) + 1 /\ SubSeq(q, 1, Len(p)) = p

\* C1: in every reachable state the flags maggingUp and regulating are not
\* both true, whatever the order of the commands, poll cycles and loop passes.
C1_MutualExclusion == ~(state.maggingUp /\ state.regulating)

\* a regulate start has just been refused because the magnet is magging up
C1_Witness == op = "regulate:magging up" /\ state.maggingUp /\ ~state.regulating

\* C2: a mag-up start while regulating, and a regulate start while magging
\* up, leaves the whole state (flags, target, accumulator) as it was, writes
\* nothing to the supply, sends no 'started' message, begins no loop, and
\* appends one entry to the log.
C2_RejectedWithoutStateChange ==
    [][ ( \/ (op' \in MagUpCommandOps /\ state.regulating)
          \/ (op' \in RegulateCommandOps /\ state.maggingUp) )
        => /\ state' = state
           /\ psWrites' = << >>
           /\ Names(sent') \cap {"MagUp Started", "Regulation Started"} = {}
           /\ magUpLoops' = magUpLoops
           /\ regulateLoops' = regulateLoops
           /\ OneAppended(logMessages, logMessages') ]_vars

\* a mag-up start has just been refused because regulation is running
C2_Witness == op = "magUp:regulating" /\ state.regulating /\ regulateLoops > 0

\* a step that is a mag-up start refused by one of its three guards
MagUpRefusal ==
    /\ op' \in MagUpCommandOps
    /\ state.maggingUp \/ state.regulating
         \/ ~state.PSConnected \/ ~state.MagnetVMonitorConnected
\* a step that is a regulate start refused by one of its two guards
RegulateRefusal ==
    /\ op' \in RegulateCommandOps
    /\ \/ state.maggingUp
       \/ /\ ~state.regulating
          /\ ~state.PSConnected \/ ~state.DiodeTempMonitorConnected
               \/ ~state.RuoxTempMonitorConnected \/ ~state.MagnetVMonitorConnected

C4_MagUpNeedsDevices ==
    [][ op' \in MagUpCommandOps
        => /\ ( \/ "MagUp Started" \in Names(sent')
                \/ (state'.maggingUp /\ ~state.maggingUp)
                \/ magUpLoops' # magUpLoops )
              => (state.PSConnected /\ state.MagnetVMonitorConnected)
           /\ ~(state.PSConnected /\ state.MagnetVMonitorConnected)
              => /\ state'.maggingUp = state.maggingUp
                 /\ psWrites' = << >> ]_vars

\* a mag-up start has just been refused with only the magnet voltage monitor
\* disconnected
C4_Witness ==
    /\ op = "magUp:not connected"
    /\ state.PSConnected /\ ~state.MagnetVMonitorConnected
    /\ ~state.maggingUp /\ magUpLoops = 0 /\ psWrites = << >>

\* C5: a regulate start from Idle is accepted only if the power supply, the
\* diode monitor, the Ruox monitor and the magnet voltage monitor are all
\* marked connected at the command; otherwise regulating stays false, no
\* 'Regulation Started' is sent and no PID loop is begun.
C5_RegulateNeedsDevices ==
    [][ (op' \in RegulateCommandOps /\ ~state.maggingUp /\ ~state.regulating)
        => LET connected == /\ state.PSConnected
                            /\ state.DiodeTempMonitorConnected
                            /\ state.RuoxTempMonitorConnected
                            /\ state.MagnetVMonitorConnected
           IN  /\ ( \/ "Regulation Started" \in Names(sent')
                    \/ state'.regulating
                    \/ regulateLoops' # regulateLoops )
                  => connected
               /\ ~connected
                  => /\ ~state'.regulating
                     /\ psWrites' = << >> ]_vars

\* a regulate start from Idle has just been refused with only the diode
\* monitor disconnected
C5_Witness ==
    /\ op = "regulate:not connected"
    /\ state.PSConnected /\ state.RuoxTempMonitorConnected /\ state.MagnetVMonitorConnected
    /\ ~state.DiodeTempMonitorConnected
    /\ ~state.regulating /\ regulateLoops = 0

\* the time between the two snapshots a loop pass works from
SnapshotDt == state.datetime - lastState.datetime
\* the change of the supply current between the two snapshots
SnapshotDI ==
    IF state.PSCurrent = NaN \/ lastState.PSCurrent = NaN THEN NaN
    ELSE state.PSCurrent - lastState.PSCurrent

\* C6: every voltage a ramp pass writes to the supply is
\* min(PSVoltage + magup_dV, voltage_limit) of the snapshot the pass ran on:
\* one write, at most magup_dV above the snapshot and at most voltage_limit.
C6_RampWriteIsClampedStep ==
    (op \in RampPassOps /\ psWrites # << >>)
    => /\ Len(psWrites) = 1
       /\ state.PSVoltage # NaN
       /\ LET stepped == state.PSVoltage + ADRSettings.magup_dV IN
          psWrites[1] = IF stepped <= ADRSettings.voltage_limit
                        THEN stepped ELSE ADRSettings.voltage_limit
       /\ psWrites[1] - state.PSVoltage <= ADRSettings.magup_dV
       /\ psWrites[1] <= ADRSettings.voltage_limit

\* a ramp pass has just written the voltage limit, the step having gone past it
C6_Witness ==
    /\ op = "magUpLoop:iteration"
    /\ state.PSVoltage = ADRSettings.voltage_limit - 2000
    /\ psWrites = << ADRSettings.voltage_limit >>

\* the back-EMF reading is at or above the limit, or not a number
BackEmfBlocks ==
    state.magnetV = NaN \/ state.magnetV >= ADRSettings.magnet_voltage_limit
\* |dI/dt| is at or above the limit, or not a number (dt = 0 is the code's
\* 1e-10 s, below which only dI = 0 passes)
CurrentSlewBlocks ==
    \/ SnapshotDI = NaN
    \/ SnapshotDt = 0 /\ SnapshotDI # 0
    \/ SnapshotDt > 0 /\ Abs(SnapshotDI) >= ADRSettings.dIdt_magup_limit * SnapshotDt

\* C7: a ramp pass writes nothing to the supply when the back-EMF reading is
\* at or above magnet_voltage_limit or |dI/dt| is at or above
\* dIdt_magup_limit, a reading that is not a number included; so a pass
\* that writes is one in which both guards passed.
C7_NoRampWriteWhenBlocked ==
    (op \in RampPassOps /\ (BackEmfBlocks \/ CurrentSlewBlocks)) => psWrites = << >>

\* a ramp pass below the current limit, with a steady current, has just
\* held the voltage because the back-EMF is at the limit
C7_Witness ==
    /\ op = "magUpLoop:iteration"
    /\ state.magnetV = ADRSettings.magnet_voltage_limit
    /\ state.PSCurrent # NaN /\ state.PSCurrent < ADRSettings.current_limit
    /\ ~CurrentSlewBlocks
    /\ psWrites = << >>

\* C8: the ramp pass that observes PSCurrent >= current_limit writes
\* nothing to the supply, logs the completion as a non-alert entry, sets
\* maggingUp to false and sends 'MagUp Stopped' with 'done'; its coroutine
\* ends there, and without a ramp coroutine no ramp pass runs.
C8_RampCompletes ==
    [][ /\ ( op' \in RampPassOps
             /\ state.PSCurrent # NaN
             /\ state.PSCurrent >= ADRSettings.current_limit )
           => /\ psWrites' = << >>
              /\ Len(logMessages') > Len(logMessages)
              /\ Last(logMessages') = << "Finished magging up.", FALSE >>
              /\ ~state'.maggingUp
              /\ \E i \in DOMAIN sent' :
                    sent'[i].name = "MagUp Stopped" /\ sent'[i].payload = "done"
              /\ op' \in {"magUp:started and done", "magUpLoop:done"}
              /\ magUpLoops' = IF op' = "magUpLoop:done" THEN magUpLoops - 1
                               ELSE magUpLoops
        /\ magUpLoops = 0 => op' \notin {"magUpLoop:iteration", "magUpLoop:done"} ]_vars

\* a running ramp loop has just completed at the current limit and ended
C8_Witness ==
    /\ op = "magUpLoop:done"
    /\ state.PSCurrent = ADRSettings.current_limit
    /\ ~state.maggingUp /\ magUpLoops = 0 /\ psWrites = << >>

\* C9: no voltage a PID pass writes to the supply is above voltage_limit,
\* whatever PSVoltage, PSCurrent, back-EMF and the PID proposal are.
C9_WriteWithinVoltageLimit ==
    op \in PIDPassOps
    => \A i \in DOMAIN psWrites :
          psWrites[i] = NaN \/ psWrites[i] <= ADRSettings.voltage_limit

\* the voltage change a PID pass applies: the result of the clamps, or 0 in
\* the pass that ends the run (line 381)
AppliedDV ==
    IF op \in {"regulate:started and done", "regulateLoop:done"} THEN 0 ELSE pidStep[2]

\* C10: the voltage change dV a PID pass applies satisfies
\* |dV| <= max(0, magnet_voltage_limit - backEMF).
C10_StepWithinBackEmfRoom ==
    op \in PIDPassOps
    => LET room == Sub(ADRSettings.magnet_voltage_limit, state.magnetV)
       IN  \/ AppliedDV = NaN
           \/ Le(Abs(AppliedDV),
                 IF Gt(room, 0) THEN room ELSE IF room = NaN THEN NaN ELSE 0)

\* C11: every voltage a PID pass writes, the writes of the pass that ends
\* the run included, differs from the PSVoltage snapshot by at most
\* dVdT_limit * dt, dt the time between the two snapshots.
C11_WriteWithinSlewLimit ==
    op \in PIDPassOps
    => \A i \in DOMAIN psWrites :
          Le(Abs(Sub(psWrites[i], state.PSVoltage)),
             ADRSettings.dVdT_limit * SnapshotDt)

\* the pass has sent 'Regulation Stopped' with the given reason
RegulationStopped(reason) ==
    \E i \in DOMAIN sent :
        sent[i].name = "Regulation Stopped" /\ sent[i].payload = reason
\* PSVoltage + dV of the pass, dV the result of the clamps
PostClampVoltage == Add(state.PSVoltage, pidStep[2])

\* C12, as claimed: a PID pass goes to Idle with 'Regulation Stopped'
\* 'done' exactly when PSVoltage + dV <= 0; every other pass stays
\* regulating and writes PSVoltage + dV.
C12_DoneIffNotPositive ==
    op \in PIDPassOps
    => /\ RegulationStopped("done") <=> Le(PostClampVoltage, 0)
       /\ Le(PostClampVoltage, 0) => ~state.regulating
       /\ ~Le(PostClampVoltage, 0)
          => state.regulating /\ psWrites = << PostClampVoltage >>

\* C12, amended: a PID pass goes to Idle with 'Regulation Stopped' 'done'
\* exactly when PSVoltage + dV <= 0; every other pass writes PSVoltage + dV
\* and stays regulating unless T_FAA was not a number at its start, in
\* which case it is cancelled.
C12_DoneIffNotPositiveOrCancelled ==
    op \in PIDPassOps
    => /\ RegulationStopped("done") <=> Le(PostClampVoltage, 0)
       /\ Le(PostClampVoltage, 0) => ~state.regulating
       /\ ~Le(PostClampVoltage, 0)
          => /\ psWrites = << PostClampVoltage >>
             /\ state.regulating <=> state.T_FAA # NaN
             /\ state.T_FAA = NaN => RegulationStopped("cancel")

\* a pass has just ended the run with PSVoltage + dV exactly 0
C12_Witness ==
    /\ op = "regulateLoop:done"
    /\ state.PSVoltage = 2000 /\ pidStep[2] = -2000
    /\ ~state.regulating /\ RegulationStopped("done")

\* C13: the last voltage written by the PID pass that ends the run with
\* 'done' is 0.
C13_LastWriteIsZero ==
    (op \in PIDPassOps /\ RegulationStopped("done"))
    => psWrites # << >> /\ Last(psWrites) = 0

\* C14: a PID pass that starts with T_FAA not a number appends a log entry
\* with the alert flag, clears regulating, and sends 'Regulation Stopped'
\* 'cancel'; the loop ends at its next wake-up.
C14_InvalidFAACancelsWithAlert ==
    [][ (op' \in PIDPassOps /\ state.T_FAA = NaN)
        => /\ \E i \in (Len(logMessages) + 1)..Len(logMessages') :
                 logMessages'[i][2] = TRUE
           /\ ~state'.regulating
           /\ \E i \in DOMAIN sent' :
                 sent'[i].name = "Regulation Stopped" /\ sent'[i].payload = "cancel" ]_vars

\* C15: a regulate command while regulating is already true only stores
\* the new target and logs it: the accumulator and every other field of
\* the state are unchanged, regulating stays true, no 'Regulation Started'
\* is sent, nothing is written to the supply and no second loop is begun.
C15_RetargetOnly ==
    [][ (op' \in RegulateCommandOps /\ state.regulating)
        => /\ \E temp \in RegulateTemps :
                 state' = [state EXCEPT !.regulationTemp = temp]
           /\ state'.regulating
           /\ state'.PID_cumulativeError = state.PID_cumulativeError
           /\ "Regulation Started" \notin Names(sent')
           /\ psWrites' = << >>
           /\ regulateLoops' = regulateLoops /\ magUpLoops' = magUpLoops
           /\ OneAppended(logMessages, logMessages')
           /\ Last(logMessages')[2] = FALSE ]_vars

\* a run that has accumulated an error has just been given a target
C15_Witness ==
    /\ op = "regulate:retarget"
    /\ state.regulating /\ regulateLoops = 1
    /\ state.PID_cumulativeError = 1
    /\ state.regulationTemp = 101

CancelMagUpOps == { "cancelMagUp:active", "cancelMagUp:idle" }
CancelRegulationOps == { "cancelRegulation:active", "cancelRegulation:idle" }
\* how many of the messages have one of the names
Count(messages, names) ==
    Cardinality({ i \in DOMAIN messages : messages[i].name \in names })
StoppedNames == { "MagUp Stopped", "Regulation Stopped" }

\* C17: a cancel-mag-up while maggingUp is false, and a cancel-regulation
\* while regulating is false, leaves the mode flags as they are, appends a
\* log entry and sends no 'MagUp Stopped' or 'Regulation Stopped'.
C17_IdleCancelSendsNoStop ==
    [][ ( \/ (op' \in CancelMagUpOps /\ ~state.maggingUp)
          \/ (op' \in CancelRegulationOps /\ ~state.regulating) )
        => /\ state'.maggingUp = state.maggingUp
           /\ state'.regulating = state.regulating
           /\ OneAppended(logMessages, logMessages')
           /\ Count(sent', StoppedNames) = 0 ]_vars

\* C18: a cancel command while its controller is active clears that
\* controller's flag within the command, appends one log entry without
\* the alert flag and sends exactly one 'stopped' message, that of its
\* controller with 'cancel'.
C18_ActiveCancelStops ==
    [][ /\ (op' \in CancelMagUpOps /\ state.maggingUp)
           => /\ ~state'.maggingUp
              /\ OneAppended(logMessages, logMessages')
              /\ Last(logMessages')[2] = FALSE
              /\ Count(sent', StoppedNames) = 1
              /\ \E i \in DOMAIN sent' :
                    sent'[i].name = "MagUp Stopped" /\ sent'[i].payload = "cancel"
        /\ (op' \in CancelRegulationOps /\ state.regulating)
           => /\ ~state'.regulating
              /\ OneAppended(logMessages, logMessages')
              /\ Last(logMessages')[2] = FALSE
              /\ Count(sent', StoppedNames) = 1
              /\ \E i \in DOMAIN sent' :
                    sent'[i].name = "Regulation Stopped" /\ sent'[i].payload = "cancel"
      ]_vars

\* a mag-up has just been cancelled, its loop not yet woken
C18_Witness ==
    /\ op = "cancelMagUp:active"
    /\ ~state.maggingUp /\ magUpLoops = 1
    /\ Last(logMessages) = << "Magging up stopped.", FALSE >>

RegulateStartOps ==
    { "regulate:started", "regulate:started and done", "regulate:started and cancelled" }

\* C16: the first PID pass of every run begins from an empty accumulator:
\* after it the accumulator holds the error of that pass alone.
C16_FreshRunFreshAccumulator ==
    op \in RegulateStartOps
    => state.PID_cumulativeError = Sub(state.regulationTemp, state.T_FAA)

\* C19: in a poll cycle a call that raises sets the readings of its own
\* instrument to NaN and that instrument's flag to false and nothing else
\* (the Ruox step also stamps the time and counts the cycle, lines 239-240,
\* as it does when the read succeeds); the cycle goes on with the next
\* instrument, and when its reads are over the cycle counter is one above
\* that of the previous snapshot.
C19_FailedReadIsLocal ==
    [][ /\ op' = "updateState:diode failed"
           => /\ state' = [state EXCEPT !.T_60K = NaN, !.T_3K = NaN,
                                        !.DiodeTempMonitorConnected = FALSE]
              /\ pollPc' = "timeConst"
        /\ op' = "updateState:ruox failed"
           => /\ state' = [state EXCEPT !.T_GGG = NaN, !.T_FAA = NaN,
                                        !.RuoxTempMonitorConnected = FALSE,
                                        !.datetime = state'.datetime,
                                        !.cycle = state.cycle + 1]
              /\ pollPc' = "magnetV"
        /\ op' = "updateState:magnetV failed"
           => /\ state' = [state EXCEPT !.magnetV = NaN,
                                        !.MagnetVMonitorConnected = FALSE]
              /\ pollPc' = "psCurrent"
        /\ op' = "updateState:ps failed"
           => /\ state' = [state EXCEPT !.PSCurrent = NaN, !.PSVoltage = NaN,
                                        !.PSConnected = FALSE]
              /\ pollPc' = "persist"
        /\ (pollPc # "persist" /\ pollPc' = "persist")
           => state'.cycle = lastState.cycle + 1 ]_vars

\* the reads of a second cycle are over: the diode call failed, the other
\* instruments were read and are still marked connected
C19_Witness ==
    /\ pollPc = "persist"
    /\ state.cycle = 2
    /\ state.T_60K = NaN /\ state.T_3K = NaN /\ ~state.DiodeTempMonitorConnected
    /\ state.T_FAA # NaN /\ state.magnetV # NaN
    /\ state.PSCurrent # NaN /\ state.PSVoltage # NaN
    /\ state.RuoxTempMonitorConnected /\ state.MagnetVMonitorConnected
    /\ state.PSConnected

\* C20: when the read of an instrument succeeds in the poll cycle after one
\* in which it failed, the instrument is marked connected again.
C20_FlagRestoredBySuccessfulRead ==
    lastState.cycle >= 1
    => /\ (op = "updateState:diode" /\ lastState.T_60K = NaN)
          => state.DiodeTempMonitorConnected
       /\ (op = "updateState:magnetV" /\ lastState.magnetV = NaN)
          => state.MagnetVMonitorConnected
       /\ (op = "updateState:psVoltage" /\ lastState.PSCurrent = NaN)
          => state.PSConnected

(***************************************************************************)
(* The poll loop.                                                          *)
(***************************************************************************)
\* C21: under fair scheduling the poll loop never stops: whatever reads have
\* failed and whatever the mode flags are, a cycle counter below the bound of
\* the model is eventually one higher, and no step lowers the cycle counter.
C21_PollNeverStops ==
    /\ \A k \in 0..(MaxPollCycle - 1) : (state.cycle = k) ~> (state.cycle = k + 1)
    /\ [][state'.cycle >= state.cycle]_vars

\* the last cycle of the model has been counted after a read has failed,
\* while a control loop is active
C21_Witness ==
    /\ state.cycle = MaxPollCycle
    /\ faults >= 1
    /\ state.maggingUp \/ state.regulating
    /\ pollPc = "sleep"

(***************************************************************************)
(* The log.                                                                *)
(***************************************************************************)
\* the last k entries of the log, oldest first
LastOf(log, k) == [i \in 1..k |-> log[Len(log) - k + i]]

\* C22: 'Get Log' with argument n returns the last min(n, L) entries of the
\* log of length L, oldest first, and all L entries when n is 0 or n >= L
\* (the empty list when L is 0).
C22_GetLogReturnsLastEntries ==
    getLogCall # << >> =>
        LET n == getLogCall[1]
            L == Len(logMessages)
        IN  /\ n # 0 => getLogCall[2] = LastOf(logMessages, IF n < L THEN n ELSE L)
            /\ (n = 0 \/ n >= L) => getLogCall[2] = logMessages
            /\ L = 0 => getLogCall[2] = << >>

\* two of three entries are asked for, and the two differ
C22_Witness ==
    /\ getLogCall # << >>
    /\ getLogCall[1] = 2
    /\ Len(logMessages) = 3
    /\ getLogCall[2] = << logMessages[2], logMessages[3] >>
    /\ logMessages[2] # logMessages[3]
    /\ logMessages[1] # logMessages[2]

(***************************************************************************)
(* The control loops as coroutines.                                        *)
(***************************************************************************)
\* C23: whatever start and cancel commands have been given, at most one
\* _magUp coroutine and at most one _regulate coroutine is live.
C23_OneLoopPerController == magUpLoops <= 1 /\ regulateLoops <= 1

\* the steps in which a suspended coroutine of a control loop is resumed
MagUpWakeOps == { "magUpLoop:exit", "magUpLoop:iteration", "magUpLoop:done" }
RegulateWakeOps == { "regulateLoop:exit", "regulateLoop:iteration",
                     "regulateLoop:done", "regulateLoop:cancelled" }

\* C24: a loop that wakes with its mode flag cleared (its controller was
\* cancelled and not started again) writes nothing to the supply and ends.
C24_CancelledLoopExits ==
    [][ /\ (op' \in MagUpWakeOps /\ ~state.maggingUp) =>
              /\ op' = "magUpLoop:exit"
              /\ psWrites' = << >>
              /\ magUpLoops' = magUpLoops - 1
              /\ state' = state
        /\ (op' \in RegulateWakeOps /\ ~state.regulating) =>
              /\ op' = "regulateLoop:exit"
              /\ psWrites' = << >>
              /\ regulateLoops' = regulateLoops - 1
              /\ state' = state ]_vars

\* the ramp loop has ended after 'Cancel Mag Up', and no loop is left
C24_Witness ==
    /\ op = "magUpLoop:exit"
    /\ Last(logMessages) = CancelMagUpEntry
    /\ magUpLoops = 0
    /\ ~state.maggingUp
    /\ psWrites = << >>

(***************************************************************************)
(* The clamp cascade, step by step.                                        *)
(***************************************************************************)
\* dV as the PID pass taken last proposed it, and after each of the six
\* clamps of lines 357-375 (the readings are those the pass ran on: a pass
\* changes the mode flag and the accumulator only)
ClampStages ==
    LET d0 == pidStep[1]
        d1 == ClampCurrent(state, d0)
        d2 == ClampVoltage(state, d1)
        d3 == ClampEmfDown(state, d2)
        d4 == ClampEmfUp(state, d3)
        d5 == ClampSlew(state, lastState, d4)
        d6 == ClampCurrentSlew(state, lastState, d5)
    IN  << d0, d1, d2, d3, d4, d5, d6 >>

\* new is old, or 0, or has the sign of old and no larger a magnitude
Shrinks(old, new) ==
    \/ new = old
    \/ new = 0
    \/ /\ old # NaN /\ new # NaN
       /\ Sign(new) = Sign(old)
       /\ Abs(new) <= Abs(old)

\* the voltage ceiling acting on a PSVoltage snapshot above voltage_limit
CeilingPullsDown(old, new) ==
    /\ Gt(state.PSVoltage, ADRSettings.voltage_limit)
    /\ Gt(Add(state.PSVoltage, old), ADRSettings.voltage_limit)
    /\ new = ADRSettings.voltage_limit - state.PSVoltage

\* C25 as stated: in every PID pass, after each of the six clamps dV is 0 or
\* has the sign of, and a magnitude no larger than, the dV before that clamp.
C25_EveryClampShrinks ==
    op \in PIDPassOps =>
        /\ ClampStages[7] = pidStep[2]
        /\ \A i \in 1..6 : Shrinks(ClampStages[i], ClampStages[i + 1])

\* C25: in every PID pass, after each of the six clamps dV is 0 or has the
\* sign of, and a magnitude no larger than, the dV before that clamp, except
\* that the voltage ceiling, when the PSVoltage snapshot is above
\* voltage_limit and PSVoltage + dV is too, sets dV to the negative
\* voltage_limit - PSVoltage.
C25_EveryClampShrinksOrPullsDown ==
    op \in PIDPassOps =>
        /\ ClampStages[7] = pidStep[2]
        /\ \A i \in 1..6 :
              \/ Shrinks(ClampStages[i], ClampStages[i + 1])
              \/ i = 2 /\ CeilingPullsDown(ClampStages[2], ClampStages[3])

\* a pass on a PSVoltage snapshot 2 mV above the limit: the ceiling has
\* turned a positive dV into -2 mV, and the slew clamp then shrank a step
C25_Witness ==
    /\ op \in PIDPassOps
    /\ state.PSVoltage = ADRSettings.voltage_limit + 2000
    /\ Gt(ClampStages[2], 0)
    /\ ClampStages[3] = -2000
    /\ ClampStages[7] = pidStep[2]

\* C26: in a PID pass whose PSCurrent reading is at or above current_limit,
\* the applied dV is not positive: the voltage the pass writes to the supply
\* (the writes of a pass that ends the run at 0 V aside) is not higher than
\* the PSVoltage snapshot.
C26_NoRaiseAtCurrentLimit ==
    (op \in PIDPassOps /\ Le(ADRSettings.current_limit, state.PSCurrent)) =>
        /\ ~Gt(AppliedDV, 0)
        /\ ~GoesNegative(state, pidStep[2]) =>
              \A i \in DOMAIN psWrites : ~Gt(psWrites[i], state.PSVoltage)

\* |dI/dt| between the two snapshots is above dIdt_regulate_limit (dt = 0 is
\* the code's 1e-10 s, which any change of the current exceeds)
CurrentSlewExceeded ==
    /\ SnapshotDI # NaN
    /\ \/ SnapshotDt = 0 /\ SnapshotDI # 0
       \/ SnapshotDt > 0 /\ Abs(SnapshotDI) > ADRSettings.dIdt_regulate_limit * SnapshotDt

\* C27: in a PID pass whose observed |dI/dt| is above dIdt_regulate_limit the
\* applied dV is 0 whatever the proposal and the earlier clamps gave: the
\* pass writes the PSVoltage snapshot, unless that is <= 0, and then the run
\* ends ('done').
C27_NoStepWhileCurrentSlews ==
    (op \in PIDPassOps /\ CurrentSlewExceeded) =>
        /\ pidStep[2] = 0
        /\ IF state.PSVoltage <= 0
           THEN /\ ~state.regulating
                /\ \E i \in DOMAIN sent : sent[i].name = "Regulation Stopped"
                                          /\ sent[i].payload = "done"
           ELSE psWrites = << state.PSVoltage >>

\* the current has risen 8 mA in one second; the proposal, still not zero
\* after the other clamps, was dropped and the snapshot written back
C27_Witness ==
    /\ op = "regulateLoop:iteration"
    /\ CurrentSlewExceeded
    /\ SnapshotDt = 1 /\ SnapshotDI = 8000
    /\ ClampStages[6] # 0 /\ ClampStages[6] # NaN
    /\ pidStep[2] = 0
    /\ psWrites = << state.PSVoltage >>

(***************************************************************************)
(* The PID accumulator.                                                    *)
(***************************************************************************)
\* C28: every PID pass adds one error term, regulationTemp - T_FAA of the
\* state it runs on, to PID_cumulativeError, unclamped (so k passes add the
\* sum of their k terms), and no other step changes PID_cumulativeError.
C28_AccumulatorAddsEachError ==
    [][ state'.PID_cumulativeError =
            IF op' \in PIDPassOps
            THEN Add(state.PID_cumulativeError, Sub(state.regulationTemp, state.T_FAA))
            ELSE state.PID_cumulativeError ]_vars

\* two passes at 1 mK below the target have been added up
C28_Witness ==
    /\ op = "regulateLoop:iteration"
    /\ state.regulationTemp = 101 /\ state.T_FAA = 100
    /\ state.PID_cumulativeError = 2

(***************************************************************************)
(* The poll cycle.                                                         *)
(***************************************************************************)
\* the steps of updateState
PollOps ==
    { "updateState:begin", "updateState:diode", "updateState:diode failed",
      "updateState:timeConst", "updateState:ruox not settled",
      "updateState:ruox failed", "updateState:ruox", "updateState:magnetV",
      "updateState:magnetV failed", "updateState:psCurrent", "updateState:ps failed",
      "updateState:psVoltage", "updateState:persist" }
\* the steps that run lines 239-240
StampOps ==
    { "updateState:ruox not settled", "updateState:ruox failed", "updateState:ruox" }
\* where updateState is suspended between line 240 and the record of its cycle
CountedNotRecorded == { "magnetV", "psCurrent", "psVoltage", "persist" }

\* the sensor readings, the time stamp and the cycle counter of a state
Readings(s) ==
    << s.T_60K, s.T_3K, s.T_GGG, s.T_FAA, s.magnetV, s.PSCurrent, s.PSVoltage,
       s.datetime, s.cycle >>

\* C29: the first step of a poll cycle makes lastState a copy of the state
\* as it is, before any update of the cycle; no other step touches
\* lastState, and no step outside the poll loop touches the readings, the
\* time stamp or the cycle counter.  So once cycle k is complete lastState
\* holds what cycle k-1 left, and lastState.cycle = state.cycle - 1.
C29_LastStateIsPreviousCycle ==
    [][ /\ lastState' = IF op' = "updateState:begin" THEN state ELSE lastState
        /\ op' = "updateState:begin" => state' = state
        /\ op' \notin PollOps => Readings(state') = Readings(state)
        /\ (pollPc' = "sleep" /\ state'.cycle >= 1) =>
              lastState'.cycle = state'.cycle - 1 ]_vars

\* the second cycle is complete, and lastState holds the first cycle's
\* readings and time stamp
C29_Witness ==
    /\ pollPc = "sleep"
    /\ state.cycle = 2 /\ lastState.cycle = 1
    /\ lastState.PSCurrent = 8994000 /\ lastState.magnetV = 50000
    /\ lastState.datetime = 1 /\ state.datetime = 2
    /\ state.PSCurrent = NaN

\* C30: whichever reads fail, a poll cycle raises the cycle counter by
\* exactly 1 (no other step changes it), then appends exactly one record to
\* the .temps file and sends exactly one 'State Changed' (in the same step,
\* and in no other); the records are as many as the cycle counter while the
\* poller sleeps, and one fewer between the count and the record.
C30_OneRecordPerCycle ==
    [][ /\ state'.cycle = state.cycle + (IF op' \in StampOps THEN 1 ELSE 0)
        /\ tempRecords' = tempRecords + (IF op' = "updateState:persist" THEN 1 ELSE 0)
        /\ Count(sent', {"State Changed"}) = (IF op' = "updateState:persist" THEN 1 ELSE 0)
        /\ tempRecords' = IF pollPc' \in CountedNotRecorded
                          THEN state'.cycle - 1 ELSE state'.cycle
        /\ tempRecords' <= state'.cycle
        /\ pollPc' = "sleep" => tempRecords' = state'.cycle ]_vars

\* the record of the second cycle, in which a read had failed, has just
\* been written and 'State Changed' sent
C30_Witness ==
    /\ op = "updateState:persist"
    /\ pollPc = "sleep"
    /\ state.cycle = 2 /\ tempRecords = 2
    /\ state.magnetV = NaN
    /\ Names(sent) = { "State Changed" } /\ Len(sent) = 1

(***************************************************************************)
(* The RuOx block of the poll cycle.                                       *)
(***************************************************************************)
\* the time since the channel was set, at the time-constant read's answer
SinceChannelSet == now - state.RuOxChanSetTime
\* the RuOx readings and the flag of their monitor
RuoxFields(s) == << s.T_FAA, s.T_GGG, s.RuoxTempMonitorConnected >>
\* the channel's out-of-range reading
OutOfRange(chan) == IF chan = "FAA" THEN 45000 ELSE 20000
Selected(s) == IF s.RuOxChan = "FAA" THEN s.T_FAA ELSE s.T_GGG
NotSelected(s) == IF s.RuOxChan = "FAA" THEN s.T_GGG ELSE s.T_FAA

\* C31: when the time-constant read answers and less than 10 time constants
\* have passed since the channel was set, the cycle keeps T_FAA, T_GGG and
\* the RuOx connectivity flag as they were and goes on to the magnet
\* voltage without reading the RuOx temperature; with 10 time constants or
\* more passed, the RuOx temperature is read.
C31_UnsettledKeepsReadings ==
    [][ (pollPc = "timeConst" /\ op' # "updateState:ruox failed") =>
            IF \A tc \in RuoxReadings.timeConst : SinceChannelSet < 10 * tc
            THEN /\ op' = "updateState:ruox not settled"
                 /\ RuoxFields(state') = RuoxFields(state)
                 /\ pollPc' = "magnetV"
            ELSE (\A tc \in RuoxReadings.timeConst : SinceChannelSet >= 10 * tc)
                    => (pollPc' = "ruox" /\ state' = state) ]_vars

\* the second cycle came 1 s after the start: the reader has not settled,
\* and the readings are still those of __init__, the monitor still connected
C31_Witness ==
    /\ op = "updateState:ruox not settled"
    /\ state.cycle = 2
    /\ state.T_FAA = NaN /\ state.T_GGG = NaN
    /\ state.RuoxTempMonitorConnected
    /\ state.T_60K = 60000

\* C32: after a RuOx read that answered, the selected channel holds one of
\* the values the monitor gives, never the channel's out-of-range value
\* (45.0 K for FAA, 20.0 K for GGG), which is replaced by NaN, and the other
\* channel is NaN; after a RuOx call that raised, T_FAA and T_GGG are NaN and
\* the monitor is marked disconnected.
C32_RuoxReadResult ==
    [][ /\ op' = "updateState:ruox" =>
              /\ Selected(state') \in
                    (RuoxReadings.ruox \ { OutOfRange(state.RuOxChan) })
                       \cup (IF OutOfRange(state.RuOxChan) \in RuoxReadings.ruox
                             THEN { NaN } ELSE { })
              /\ NotSelected(state') = NaN
              /\ state'.RuoxTempMonitorConnected = state.RuoxTempMonitorConnected
              /\ state'.RuOxChan = state.RuOxChan
        /\ op' = "updateState:ruox failed" =>
              /\ state'.T_FAA = NaN /\ state'.T_GGG = NaN
              /\ ~state'.RuoxTempMonitorConnected ]_vars

\* the FAA channel has read 20.0 K, which is out of range for GGG only: the
\* value is kept, and T_GGG is NaN
C32_Witness ==
    /\ op = "updateState:ruox"
    /\ state.RuOxChan = "FAA"
    /\ state.T_FAA = 20000 /\ state.T_GGG = NaN

(***************************************************************************)
(* The log as a whole.                                                     *)
(***************************************************************************)
IsLogChanged(m) == m.name = "Log Changed"
\* the entries a step has added at the end of the log
Appended(old, new) == SubSeq(new, Len(old) + 1, Len(new))

\* C33: every step leaves the entries of the log as they are and in their
\* order, adding entries at the end only, and sends one 'Log Changed' for
\* each entry it adds, carrying that entry's message and alert, in the
\* order of the entries; so the length of the log never decreases.
C33_LogIsAppendOnly ==
    [][ /\ Len(logMessages') >= Len(logMessages)
        /\ SubSeq(logMessages', 1, Len(logMessages)) = logMessages
        /\ LET added == Appended(logMessages, logMessages')
               changes == SelectSeq(sent', IsLogChanged)
           IN  /\ Len(changes) = Len(added)
               /\ \A i \in DOMAIN added :
                     /\ changes[i].payload = added[i][1]
                     /\ changes[i].alert = added[i][2] ]_vars

\* a refused start has just added its alert entry to a log of four entries
\* or more, and sent it
C33_Witness ==
    /\ op \in { "magUp:not connected", "regulate:not connected" }
    /\ Len(logMessages) >= 5
    /\ Last(logMessages)[2] = TRUE
    /\ Count(sent, { "Log Changed" }) = 1
    /\ sent[1].payload = Last(logMessages)[1] /\ sent[1].alert = TRUE

(***************************************************************************)
(* What the control loops leave alone.                                     *)
(***************************************************************************)
\* the connectivity flags of a state
Flags(s) ==
    << s.PSConnected, s.DiodeTempMonitorConnected, s.RuoxTempMonitorConnected,
       s.MagnetVMonitorConnected >>
\* the channel selector and the time it was set
Selector(s) == << s.RuOxChan, s.RuOxChanSetTime >>
\* the steps that run initializeInstruments
InitializeOps == { "initServer", "gpib_device_connect" }

\* C34: a step of the ramp loop changes nothing of the state but maggingUp,
\* a step of the PID loop nothing but regulating and PID_cumulativeError;
\* the readings, the time stamp, the cycle counter and the channel selector
\* change in steps of the poll loop only, the connectivity flags in those
\* and in initializeInstruments only.
C34_LoopsLeaveReadingsAlone ==
    [][ /\ op' \in (RampPassOps \cup MagUpWakeOps) =>
              state' = [state EXCEPT !.maggingUp = state'.maggingUp]
        /\ op' \in (PIDPassOps \cup RegulateWakeOps) =>
              state' = [state EXCEPT !.regulating = state'.regulating,
                                     !.PID_cumulativeError = state'.PID_cumulativeError]
        /\ op' \notin PollOps =>
              /\ Readings(state') = Readings(state)
              /\ Selector(state') = Selector(state)
        /\ op' \notin (PollOps \cup InitializeOps) => Flags(state') = Flags(state) ]_vars

\* a PID pass has just written to the supply on polled readings, which it
\* left alone
C34_Witness ==
    /\ op = "regulateLoop:iteration"
    /\ state.regulating
    /\ psWrites # << >>
    /\ state.cycle >= 1
    /\ state.PSCurrent = 8994000 /\ state.T_FAA = 100
    /\ Flags(state) = << TRUE, TRUE, TRUE, TRUE >>

(***************************************************************************)
(* Targets, completions and writes.                                        *)
(***************************************************************************)
\* C35: after a 'Regulate' that starts a run, the target the PID passes of
\* the run use, state['regulationTemp'], is the temperature the command gave.
C35_RunUsesGivenTarget ==
    op \in RegulateStartOps => state.regulationTemp \in RegulateTemps

\* the steps in which a ramp ends with 'done'
MagUpDoneOps == { "magUp:started and done", "magUpLoop:done" }

\* C36: a ramp ends with 'done' only in a pass whose PSCurrent snapshot is a
\* number at or above current_limit, never on a PSCurrent that is NaN.
C36_DoneOnlyAtCurrentLimit ==
    op \in MagUpDoneOps =>
        /\ state.PSCurrent # NaN
        /\ state.PSCurrent >= ADRSettings.current_limit

\* C37: no PID pass writes NaN to the supply: a pass that finds T_FAA NaN
\* and cancels writes nothing, and a pass whose PSVoltage snapshot is NaN
\* writes nothing.
C37_NoNaNWrite ==
    op \in PIDPassOps =>
        /\ \A i \in DOMAIN psWrites : psWrites[i] # NaN
        /\ FAAInvalid(state) => psWrites = << >>
        /\ state.PSVoltage = NaN => psWrites = << >>

\* where updateState is suspended with the two snapshots not those of two
\* consecutive complete cycles: after lastState = state.copy() and before the
\* stamp of line 239 both snapshots are the same cycle's, and from the stamp
\* until ps.current() answers the time stamp of state is the new cycle's
\* while its PSCurrent is still the old one
SnapshotsTorn == pollPc \in { "diode", "timeConst", "ruox", "magnetV", "psCurrent" }

\* C38: every ramp pass and every PID pass runs on a state and a lastState
\* whose PSCurrent and time stamp are those of two consecutive complete poll
\* cycles, wherever the poll loop is suspended.
C38_PassOnConsistentSnapshots ==
    op \in (RampPassOps \cup PIDPassOps) => ~SnapshotsTorn

(***************************************************************************)
(* What a cancel command leaves alone.                                     *)
(***************************************************************************)
\* C39: 'Cancel Mag Up' changes nothing of the state but maggingUp, so not
\* the regulating flag, the regulation target or the PID accumulator, and
\* ends no coroutine: a running PID loop goes on; 'Cancel Regulation'
\* changes nothing but regulating, and a running ramp loop goes on.
C39_CancelLeavesOtherControllerAlone ==
    [][ /\ op' \in CancelMagUpOps =>
              /\ state' = [state EXCEPT !.maggingUp = FALSE]
              /\ regulateLoops' = regulateLoops /\ magUpLoops' = magUpLoops
              /\ psWrites' = << >>
              /\ Count(sent', { "Regulation Stopped" }) = 0
        /\ op' \in CancelRegulationOps =>
              /\ state' = [state EXCEPT !.regulating = FALSE]
              /\ regulateLoops' = regulateLoops /\ magUpLoops' = magUpLoops
              /\ psWrites' = << >>
              /\ Count(sent', { "MagUp Stopped" }) = 0 ]_vars

\* 'Cancel Mag Up' has been called while a PID loop is running, which it is
\* still
C39_Witness ==
    /\ op = "cancelMagUp:idle"
    /\ state.regulating /\ regulateLoops = 1
    /\ ~state.maggingUp
====
